---- MODULE Spec2Model ----
(***************************************************************************)
(* kitty_proxy: the HTTP proxy (src/src/http_proxy.rs) and the SOCKS5      *)
(* proxy (src/src/socks_proxy.rs) as state machines.                       *)
(*                                                                         *)
(* Text is a sequence of tokens.  The separators are the tokens CR, LF and *)
(* SP; every other token stands for a run of bytes that holds no           *)
(* separator.  SOCKS5 frames are sequences of byte values 0..255.          *)
(*                                                                         *)
(* A client stream is "open", "shut" (the proxy shut its write half), or   *)
(* "broken" (the peer reset the connection).  A write to a stream that is  *)
(* not "open" fails and delivers nothing; a shutdown of a "broken" stream  *)
(* fails.  Any operation on an "open" or "shut" stream may find that the   *)
(* peer has reset the connection meanwhile: it then fails and leaves the   *)
(* stream "broken".                                                        *)
(***************************************************************************)
EXTENDS Integers, Sequences, FiniteSets, TLC

\* ------------------------------------------------------------- bounds
NumHandlers == 2
NumNodes == 2
MaxSpin == 2

Handlers == 1..NumHandlers
Nodes == 1..NumNodes

\* ------------------------------------------------------------- text
CR == "\\r"
LF == "\\n"
SP == " "
BAD == "<ff>"
Whitespace == {CR, LF, SP}

CRLF == <<CR, LF>>

RECURSIVE Concat(_)
Concat(ss) == IF ss = <<>> THEN <<>> ELSE Head(ss) \o Concat(Tail(ss))

Range(s) == {s[i] : i \in 1..Len(s)}

IsPrefix(p, s) == Len(p) <= Len(s) /\ SubSeq(s, 1, Len(p)) = p

\* index of the first LF of s, 0 when s holds none
FirstLF(s) ==
    IF \E i \in 1..Len(s) : s[i] = LF
    THEN CHOOSE i \in 1..Len(s) : s[i] = LF /\ \A j \in 1..(i - 1) : s[j] # LF
    ELSE 0

\* str::split_whitespace: the maximal runs of tokens that are not whitespace
RECURSIVE split_whitespace(_, _, _)
split_whitespace(s, cur, acc) ==
    IF s = <<>>
    THEN IF cur = <<>> THEN acc ELSE Append(acc, cur)
    ELSE IF Head(s) \in Whitespace
         THEN split_whitespace(Tail(s), <<>>, IF cur = <<>> THEN acc ELSE Append(acc, cur))
         ELSE split_whitespace(Tail(s), Append(cur, Head(s)), acc)

\* ------------------------------------------------------------- errors and replies
\* ResponseCode (crate::types) of an error, as its integer value. HttpReply
\* and SocksReply cast the same value, and an enum gives each variant its own
\* value, so the values are those of the SOCKS REP column of the taxonomy.
ResponseCode(err) ==
    CASE err = "Success" -> 0
      [] err = "ConnectionRefused" -> 5
      [] err = "CommandNotSupported" -> 7
      [] err = "Unsupported" -> 7
      [] err = "AddrTypeNotSupported" -> 8
      [] OTHER -> 1

\* HttpReply::new, `status as usize` formatted in decimal
HttpStatus(err) == ToString(ResponseCode(err))

HttpReply(status) ==
    <<"HTTP/1.1", SP, status, SP, "Proxy", SP, "Error", CR, LF,
      "Content-Type:", SP, "text/plain", CR, LF,
      "Content-Length:", SP, "11", CR, LF,
      CR, LF,
      "Proxy", SP, "Error">>

\* a success line that always names HTTP/1.1
ConnectionEstablishedFixed(version) ==
    <<"HTTP/1.1", SP, "200", SP, "Connection", SP, "established", CR, LF, CR, LF>>

\* format!("{} 200 Connection established\r\n\r\n", req.version)
ConnectionEstablished(version) ==
    version \o <<SP, "200", SP, "Connection", SP, "established", CR, LF, CR, LF>>

\* ------------------------------------------------------------- the classifier
Rules == {"Direct", "Proxy", "Reject"}

\* MatchProxy::traffic_stream (crate::traffic_diversion): one stable verdict per host
traffic_stream(host) ==
    CASE host = "d.test" -> "Direct"
      [] host = "p.test" -> "Proxy"
      [] host = "r.test" -> "Reject"
      [] OTHER -> "Direct"

\* ------------------------------------------------------------- the HTTP request parser
HostNames == {"d.test", "p.test", "r.test"}

PortOf(tok) ==
    CASE tok = ":443" -> 443
      [] tok = ":8080" -> 8080
      [] OTHER -> 0

\* Url::parse, then url.host() and url.port().unwrap_or(80)
UrlParse(w) ==
    IF Len(w) = 0 \/ w[1] # "http://"
    THEN [ok |-> FALSE, err |-> "UrlParse", host |-> "", port |-> 0]
    ELSE IF Len(w) < 2 \/ w[2] \notin HostNames
    THEN [ok |-> FALSE, err |-> "UrlParse", host |-> "", port |-> 0]
    ELSE [ok |-> TRUE, err |-> "", host |-> w[2],
          port |-> IF Len(w) >= 3 /\ PortOf(w[3]) # 0 THEN PortOf(w[3]) ELSE 80]

\* The read_line loop of HttpReq::from_stream over the bytes the client sends
\* (eof: the client closes its sending side after them).
\*   "ok"      the empty line was read; headers are the lines, rest what follows
\*   "io"      read_line failed (a line that is not UTF-8)
\*   "spin"    end of stream before the empty line: read_line returns 0 for ever
\*   "blocked" the client sends no more and does not close: read_line never returns
RECURSIVE ReadHeaders(_, _, _)
ReadHeaders(s, eof, acc) ==
    LET i == FirstLF(s)
        line == IF i = 0 THEN s ELSE SubSeq(s, 1, i)
        rest == IF i = 0 THEN <<>> ELSE SubSeq(s, i + 1, Len(s))
    IN  IF i = 0 /\ ~eof
        THEN [outcome |-> "blocked", headers |-> acc, rest |-> <<>>]
        ELSE IF BAD \in Range(line)
        THEN [outcome |-> "io", headers |-> acc, rest |-> <<>>]
        ELSE IF i = 0
        THEN [outcome |-> "spin", headers |-> Append(acc, line), rest |-> <<>>]
        ELSE IF line = CRLF
        THEN [outcome |-> "ok", headers |-> Append(acc, line), rest |-> rest]
        ELSE ReadHeaders(rest, eof, Append(acc, line))

\* a join that ends the block with one more line feed
JoinHeadersExtraLF(headers) == Append(Concat(headers), LF)

\* request_headers.join("")
JoinHeaders(headers) == Concat(headers)

NoReq == [method |-> <<>>, host |-> "", port |-> 0, readed_buffer |-> <<>>, version |-> <<>>]

\* What HttpReq::from_stream does after the read loop, given the lines it read:
\*   "panic"   fewer than three words on the first line (expect)
\*   "version" unsupported version: the stream is shut, then the error returned
\*   "err"     the URL does not parse or has no host
\*   "ok"      the request record
ParseHeaders(headers) ==
    LET parts == split_whitespace(headers[1], <<>>, <<>>)
    IN  IF Len(parts) < 3
        THEN [outcome |-> "panic", err |-> "", req |-> NoReq]
        ELSE LET method == parts[1]
                 version == parts[3]
                 origin_path == IF method = <<"CONNECT">>
                                THEN <<"http://">> \o parts[2]
                                ELSE parts[2]
                 url == UrlParse(origin_path)
             IN  IF version # <<"HTTP/1.1">> /\ version # <<"HTTP/1.0">>
                 THEN [outcome |-> "version", err |-> "Anyhow", req |-> NoReq]
                 ELSE IF ~url.ok
                 THEN [outcome |-> "err", err |-> url.err, req |-> NoReq]
                 ELSE [outcome |-> "ok", err |-> "",
                       req |-> [method |-> method, host |-> url.host, port |-> url.port,
                                readed_buffer |-> JoinHeaders(headers),
                                version |-> version]]

\* ------------------------------------------------------------- what HTTP clients send
Line(words) == words \o CRLF

HttpInputs ==
    { [bytes |-> Line(<<"GET", SP, "http://", "p.test", "/x", SP, "HTTP/1.1">>)
                 \o Line(<<"Host:", SP, "p.test">>) \o CRLF, eof |-> FALSE],
      [bytes |-> Line(<<"CONNECT", SP, "d.test", ":443", SP, "HTTP/1.0">>) \o CRLF
                 \o <<"tls">>, eof |-> FALSE],
      [bytes |-> Line(<<"POST", SP, "http://", "d.test", ":8080", "/", SP, "HTTP/1.0">>)
                 \o <<"X:", SP, "y", LF>> \o CRLF \o <<"body">>, eof |-> TRUE],
      [bytes |-> Line(<<"CONNECT", SP, "p.test", ":443", SP, "HTTP/1.1">>) \o CRLF,
       eof |-> FALSE],
      [bytes |-> Line(<<"GET", SP, "http://", "r.test", "/", SP, "HTTP/1.1">>) \o CRLF,
       eof |-> FALSE],
      [bytes |-> Line(<<"GET", SP, "http://", "d.test", "/", SP, "HTTP/2">>) \o CRLF,
       eof |-> FALSE],
      [bytes |-> Line(<<"GET", SP, "/x", SP, "HTTP/1.1">>) \o CRLF, eof |-> FALSE],
      [bytes |-> Line(<<"GET", SP, "http://", "d.test", "/">>) \o CRLF, eof |-> FALSE],
      [bytes |-> Line(<<"GET", SP, "http://", "d.test", "/", SP, "HTTP/1.1">>),
       eof |-> TRUE],
      [bytes |-> Line(<<"GET", SP, "http://", "d.test", "/", SP, "HTTP/1.1">>),
       eof |-> FALSE],
      [bytes |-> Line(<<"GET", SP, BAD, SP, "HTTP/1.1">>) \o CRLF, eof |-> FALSE] }


\* ------------------------------------------------------------- SOCKS5: constants and replies
SOCKS_VERSION == 5
RESERVED == 0
NoAuth == 0
NoMethod == 255

\* SocksReply::new, `status as u8`: the REP byte of an error
SocksRep(err) == ResponseCode(err) % 256

\* SocksReply::new
SocksReply(status) == <<SOCKS_VERSION, status, RESERVED, 1, 0, 0, 0, 0, 0, 0>>

\* SockCommand::from
SockCommand(n) ==
    CASE n = 1 -> "Connect"
      [] n = 2 -> "Bind"
      [] n = 3 -> "UdpAssosiate"
      [] OTHER -> "None"

\* AddrType::from
AddrType(n) ==
    CASE n = 1 -> "V4"
      [] n = 3 -> "Domain"
      [] n = 4 -> "V6"
      [] OTHER -> "None"

\* std::str::from_utf8 succeeds (the inputs hold ASCII bytes or the byte 0xFF,
\* which no UTF-8 text holds)
Utf8Valid(addr) == \A i \in 1..Len(addr) : addr[i] < 128

\* (u16::from(hi) << 8) | u16::from(lo)
U16(hi, lo) == hi * 256 + lo

\* addr_to_host, for an address from_utf8 accepts
addr_to_host(addr_type, addr) ==
    CASE addr_type = "V6" ->
            <<"Ipv6">> \o [x \in 1..8 |-> U16(addr[2 * x - 1], addr[2 * x])]
      [] addr_type = "V4" -> <<"Ipv4", addr[1], addr[2], addr[3], addr[4]>>
      [] OTHER -> <<"Domain", addr>>

\* a check of the first offered method only
AuthAcceptedFirst(method) == Len(method) > 0 /\ method[1] = NoAuth

\* SOCKSReq::from_stream, method.contains(&no_auth)
AuthAccepted(method) == NoAuth \in Range(method)

\* a match that lets Bind go the way of Connect
CommandProceedsBind(command) == command \in {"Connect", "Bind"}

\* SOCKClient::handle_client, the match on req.command: the Connect arm
CommandProceeds(command) == command = "Connect"

\* MatchProxy::traffic_stream for the SOCKS handler: the verdict on a host
socks_verdict(host) ==
    CASE host = <<"Ipv4", 127, 0, 0, 1>> -> "Reject"
      [] host = <<"Domain", <<112>>>> -> "Proxy"
      [] OTHER -> "Direct"

\* the boolean the SOCKS handler gets from traffic_stream: true for a direct
\* connection, false for the upstream proxy; it has no value for Reject
MatchRes(rule) ==
    CASE rule = "Direct" -> {TRUE}
      [] rule = "Proxy" -> {FALSE}
      [] OTHER -> BOOLEAN

\* ------------------------------------------------------------- what SOCKS clients send
Greetings ==
    { <<5, 1, 0>>, <<5, 2, 2, 0>>, <<5, 1, 2>>, <<5, 0>>, <<4, 1, 0>>, <<5, 2, 0>>, <<5>> }

V6Loopback == <<0, 0, 0, 0, 0, 0, 0, 0, 0, 0, 0, 0, 0, 0, 0, 1>>

Requests ==
    { <<5, 1, 0, 1, 127, 0, 0, 1, 0, 80>>,
      <<5, 1, 0, 1, 10, 0, 0, 1, 1, 187>>,
      <<5, 1, 0, 3, 1, 112, 0, 80>>,
      <<5, 1, 0, 4>> \o V6Loopback \o <<0, 80>>,
      <<5, 2, 0, 1, 10, 0, 0, 1, 0, 80>>,
      <<5, 3, 0, 3, 1, 112, 0, 53>>,
      <<4, 1, 0, 1, 10, 0, 0, 1, 0, 80>>,
      <<5, 9, 0, 1, 10, 0, 0, 1, 0, 80>>,
      <<5, 1, 0, 2, 10, 0, 0, 1, 0, 80>>,
      <<5, 1, 0, 3, 1, 255, 0, 80>>,
      <<5, 1, 0, 1, 10, 0>>,
      <<5, 1, 0, 3, 1, 112, 0, 80, 71>>,
      <<>> }

SocksInputs == {g \o r : g \in Greetings, r \in Requests}

NoSocksReq == [version |-> 0, command |-> "None", host |-> <<>>, port |-> 0]

IdleSocks ==
    [pc |-> "idle",
     sent |-> <<>>,          \* every byte the client sends, then it closes its sending side
     consumed |-> 0,         \* how many of them the parser has read
     stream |-> "open",      \* the client stream
     client_got |-> <<>>,    \* bytes of the proxy's own delivered to the client
     readed_buffer |-> <<>>,
     method |-> <<>>,
     packet |-> <<>>,
     req |-> NoSocksReq,
     match_res |-> FALSE,
     dialed |-> <<>>,        \* the address of the outbound dial, <<>> for none
     dial |-> "",            \* how the dial ended, "" while there is none
     target_got |-> <<>>,    \* bytes delivered to the target
     target_read |-> 0,      \* bytes read from the target before the relay
     relayed |-> FALSE,      \* copy_bidirectional was started
     error |-> "",
     result |-> <<>>]

\* ------------------------------------------------------------- state
VARIABLES
    is_serve,             \* HttpProxy.is_serve
    acceptor,             \* the accept-loop task: "none", "running", "stopped"
    node_statistics_map,  \* HttpProxy.node_statistics_map: per-node count
    http,                 \* one HttpClient task per accepted connection
    socks                 \* the SOCKClient task of a connection to the SOCKS5 proxy

vars == <<is_serve, acceptor, node_statistics_map, http, socks>>

IdleClient ==
    [pc |-> "idle",
     sent |-> <<>>,          \* every byte the client sends on this connection
     eof |-> FALSE,          \* whether the client then closes its sending side
     cin |-> <<>>,           \* client bytes still unread in the socket
     stream |-> "open",      \* the client stream
     client_got |-> <<>>,    \* bytes of the proxy's own delivered to the client
     headers |-> <<>>,       \* request_headers
     req |-> NoReq,
     rule |-> "",
     node_info |-> 0,        \* the node picked, 0 for None
     leased |-> FALSE,       \* incremented and not yet decremented
     dialed |-> "",          \* the address of the outbound dial, "" for none
     dial |-> "",            \* how the dial ended, "" while there is none
     target_got |-> <<>>,    \* bytes delivered to the target
     relayed |-> FALSE,      \* copy_bidirectional was started
     guard |-> "",           \* the lock guard the task holds, "" for none
     error |-> "",           \* the error handle_client returned, "" for none
     result |-> <<>>,        \* what handle_client returned
     spins |-> 0]

Init ==
    /\ is_serve = FALSE
    /\ acceptor = "none"
    /\ node_statistics_map = [n \in Nodes |-> 0]
    /\ http = [h \in Handlers |-> IdleClient]
    /\ socks = IdleSocks

\* ------------------------------------------------------------- stream operations
\* the stream after an operation on it that fails
Failed(stream) == IF stream = "open" \/ stream = "shut" THEN "broken" ELSE stream

\* the stream after a write to it that fails
WriteFailed(stream) == IF stream = "open" THEN "broken" ELSE stream

\* whether an operation can succeed
CanWrite(stream) == stream = "open"
CanShutdown(stream) == stream = "open" \/ stream = "shut"

\* ------------------------------------------------------------- the node pool
\* NodeStatistics::from_vec
from_vec == [n \in Nodes |-> 0]

\* NodeStatistics::get_least_connected_node: the nodes it may return
get_least_connected_node(stats) ==
    {n \in Nodes : \A m \in Nodes : stats[n] <= stats[m]}

incre_count_by_node_info(stats, n) == [stats EXCEPT ![n] = @ + 1]

decre_count_by_node_info(stats, n) == [stats EXCEPT ![n] = @ - 1]

\* ------------------------------------------------------------- the HTTP acceptor
\* HttpProxy::serve: bind, set is_serve, (re)build the statistics, spawn the loop
Serve ==
    /\ acceptor = "none"
    /\ is_serve' = TRUE
    /\ node_statistics_map' = from_vec
    /\ acceptor' = "running"
    /\ UNCHANGED <<http, socks>>

\* rx.changed() in the select: the accept loop is dropped
Shutdown ==
    /\ acceptor = "running"
    /\ acceptor' = "stopped"
    /\ UNCHANGED <<is_serve, node_statistics_map, http, socks>>

\* listener.accept() and tokio::spawn of the handler task
Accept(h) ==
    /\ acceptor = "running"
    /\ http[h].pc = "idle"
    /\ \E in \in HttpInputs :
         http' = [http EXCEPT ![h] = [@ EXCEPT !.pc = "parse",
                                               !.sent = in.bytes,
                                               !.eof = in.eof,
                                               !.cin = in.bytes]]
    /\ UNCHANGED <<is_serve, node_statistics_map, acceptor, socks>>

\* ------------------------------------------------------------- the HTTP handler
\* handle_client returns Err(err): the task goes on to the error reply of serve
Raise(c, err) == [c EXCEPT !.pc = "reply", !.error = err, !.result = <<"Err", err>>]

\* handle_client returns Ok(n): the task ends
Return(c, n) == [c EXCEPT !.pc = "done", !.result = <<"Ok", n>>]

\* HttpReq::from_stream
HttpFromStream(h) ==
    LET c == http[h]
        r == ReadHeaders(c.sent, c.eof, <<>>)
    IN
    /\ c.pc = "parse"
    /\ \/ /\ c.stream = "broken" \/ r.outcome = "io"
          /\ http' = [http EXCEPT ![h] = Raise([c EXCEPT !.headers = r.headers], "Io")]
       \/ /\ c.stream # "broken"
          /\ r.outcome = "blocked"
          /\ http' = [http EXCEPT ![h] = [c EXCEPT !.pc = "read_wait",
                                                   !.headers = r.headers,
                                                   !.cin = <<>>]]
       \/ /\ c.stream # "broken"
          /\ r.outcome = "spin"
          /\ http' = [http EXCEPT ![h] = [c EXCEPT !.pc = "read_eof",
                                                   !.headers = r.headers,
                                                   !.cin = <<>>]]
       \/ /\ c.stream # "broken"
          /\ r.outcome = "ok"
          /\ LET p == ParseHeaders(r.headers)
             IN  \E lost \in 0..Len(r.rest) :
                 LET d == [c EXCEPT !.headers = r.headers,
                                    !.cin = SubSeq(r.rest, lost + 1, Len(r.rest))]
                 IN  CASE p.outcome = "panic" ->
                            http' = [http EXCEPT ![h] = [d EXCEPT !.pc = "panicked"]]
                       [] p.outcome = "version" ->
                            \E ok \in {b \in BOOLEAN : b => CanShutdown(c.stream)} :
                              http' = [http EXCEPT ![h] =
                                  IF ok THEN Raise([d EXCEPT !.stream = "shut"], p.err)
                                  ELSE Raise([d EXCEPT !.stream = Failed(c.stream)], "Io")]
                       [] p.outcome = "err" ->
                            http' = [http EXCEPT ![h] = Raise(d, p.err)]
                       [] OTHER ->
                            http' = [http EXCEPT ![h] = [d EXCEPT !.pc = "classify",
                                                                  !.req = p.req]]
    /\ UNCHANGED <<is_serve, node_statistics_map, acceptor, socks>>

\* the read loop at end of stream: read_line returns Ok(0) and "" is pushed again
ReadLineEof(h) ==
    LET c == http[h] IN
    /\ c.pc = "read_eof"
    /\ c.spins < MaxSpin
    /\ http' = [http EXCEPT ![h] = [c EXCEPT !.headers = Append(@, <<>>),
                                             !.spins = @ + 1]]
    /\ UNCHANGED <<is_serve, node_statistics_map, acceptor, socks>>

\* the read loop waiting for a client that sends no more: only a reset ends it
ReadLineReset(h) ==
    LET c == http[h] IN
    /\ c.pc = "read_wait"
    /\ http' = [http EXCEPT ![h] = Raise([c EXCEPT !.stream = "broken"], "Io")]
    /\ UNCHANGED <<is_serve, node_statistics_map, acceptor, socks>>

\* a handler whose guard on the statistics outlives the block of the pick
guard_after_pick_kept(pc) == IF pc = "pick" THEN "statistics" ELSE ""

\* the guard left when the block that took it at pc ends: the guards are
\* locals of their blocks, and the guard on the classifier is dropped by hand
guard_after(pc) == ""

\* a handler that takes no verdict for a direct one
is_direct_never(rule) == FALSE

\* handle_client, is_direct: the verdict is Direct
is_direct(rule) == rule = "Direct"

\* a match on the rule whose Reject arm is served like Direct
AfterClassifyRejectDials(rule) ==
    CASE rule = "Proxy" -> "pick"
      [] OTHER -> "dial"

\* handle_client, the match on the rule: where the handler goes next
AfterClassify(rule) ==
    CASE rule = "Reject" -> "shutdown"
      [] is_direct(rule) -> "dial"
      [] OTHER -> "pick"

\* handle_client, the classification and the Reject arm
Classify(h) ==
    LET c == http[h]
        rule == traffic_stream(c.req.host)
        d == [c EXCEPT !.rule = rule, !.guard = guard_after(c.pc)]
    IN
    /\ c.pc = "classify"
    /\ IF AfterClassify(rule) = "shutdown"
       THEN \E ok \in {b \in BOOLEAN : b => CanShutdown(c.stream)} :
              http' = [http EXCEPT ![h] =
                  IF ok THEN Return([d EXCEPT !.stream = "shut"], 0)
                  ELSE Raise([d EXCEPT !.stream = Failed(c.stream)], "Io")]
       ELSE http' = [http EXCEPT ![h] = [d EXCEPT !.pc = AfterClassify(rule)]]
    /\ UNCHANGED <<is_serve, node_statistics_map, acceptor, socks>>

\* handle_client, the node selection under the statistics lock
Pick(h) ==
    LET c == http[h] IN
    /\ c.pc = "pick"
    /\ \E n \in get_least_connected_node(node_statistics_map) :
         http' = [http EXCEPT ![h] = [c EXCEPT !.node_info = n,
                                                  !.guard = guard_after(c.pc),
                                                  !.pc = "dial"]]
    /\ UNCHANGED <<is_serve, node_statistics_map, acceptor, socks>>

\* the address handle_client dials
target_server(c) ==
    IF is_direct(c.rule)
    THEN <<"host", c.req.host, c.req.port>>
    ELSE <<"node", c.node_info>>

DialOutcomes == {"connected", "refused", "timeout"}

\* handle_client, timeout(time_out, TcpStream::connect(target_server))
Dial(h) ==
    LET c == http[h]
        d == [c EXCEPT !.dialed = target_server(c)]
    IN
    /\ c.pc = "dial"
    /\ \E out \in DialOutcomes :
         LET e == [d EXCEPT !.dial = out] IN
         http' = [http EXCEPT ![h] =
             CASE out = "timeout" -> Raise(e, "ConnectionRefused")
               [] out = "refused" -> Raise(e, "Io")
               [] OTHER -> [e EXCEPT !.pc = IF is_direct(c.rule) THEN "forward" ELSE "incre"]]
    /\ UNCHANGED <<is_serve, node_statistics_map, acceptor, socks>>

\* handle_client, the increment after the dial
Incre(h) ==
    LET c == http[h] IN
    /\ c.pc = "incre"
    /\ node_statistics_map' = incre_count_by_node_info(node_statistics_map, c.node_info)
    /\ http' = [http EXCEPT ![h] = [c EXCEPT !.leased = TRUE,
                                             !.guard = guard_after(c.pc),
                                             !.pc = "forward"]]
    /\ UNCHANGED <<is_serve, acceptor, socks>>

\* whether handle_client answers the client itself instead of forwarding the headers
IsTunnel(c) == c.req.method = <<"CONNECT">> /\ is_direct(c.rule)

\* handle_client, the 200 line to the client or the header block to the target
Forward(h) ==
    LET c == http[h] IN
    /\ c.pc = "forward"
    /\ IF IsTunnel(c)
       THEN \E ok \in {b \in BOOLEAN : b => CanWrite(c.stream)} :
              http' = [http EXCEPT ![h] =
                  IF ok
                  THEN [c EXCEPT !.client_got = @ \o ConnectionEstablished(c.req.version),
                                 !.pc = "relay"]
                  ELSE Raise([c EXCEPT !.stream = WriteFailed(c.stream)], "Io")]
       ELSE \E ok \in BOOLEAN :
              http' = [http EXCEPT ![h] =
                  IF ok
                  THEN [c EXCEPT !.target_got = @ \o c.req.readed_buffer, !.pc = "relay"]
                  ELSE Raise(c, "Io")]
    /\ UNCHANGED <<is_serve, node_statistics_map, acceptor, socks>>

RelayOutcomes == {"closed", "NotConnected", "Io"}

\* the stream on which copy_bidirectional met its error: the client's or the
\* target's; "none" when both directions ended at their end of stream
RelayErrorSides(out) == IF out = "closed" THEN {"none"} ELSE {"client", "target"}

\* the match on the result of copy_bidirectional: what handle_client returns
RelayReturn(c, out) ==
    CASE out = "closed" -> Return(c, "t_to_s")
      [] out = "NotConnected" -> Return(c, 0)
      [] OTHER -> Raise(c, "Io")

\* handle_client, copy_bidirectional and the match on its result
Relay(h) ==
    LET c == http[h] IN
    /\ c.pc = "relay"
    /\ \E out \in RelayOutcomes :
       \E side \in RelayErrorSides(out) :
         LET d == [c EXCEPT !.relayed = TRUE,
                            !.target_got = @ \o c.cin,
                            !.cin = <<>>,
                            !.stream = IF side = "client" THEN Failed(@) ELSE @]
         IN  http' = [http EXCEPT ![h] =
                 IF is_direct(c.rule)
                 THEN RelayReturn(d, out)
                 ELSE [RelayReturn(d, out) EXCEPT !.pc = "decre"]]
    /\ UNCHANGED <<is_serve, node_statistics_map, acceptor, socks>>

\* handle_client, the decrement after the relay, and the return
Decre(h) ==
    LET c == http[h] IN
    /\ c.pc = "decre"
    /\ node_statistics_map' = decre_count_by_node_info(node_statistics_map, c.node_info)
    /\ http' = [http EXCEPT ![h] = [c EXCEPT !.leased = FALSE,
                                             !.guard = guard_after(c.pc),
                                             !.pc = IF c.error = "" THEN "done" ELSE "reply"]]
    /\ UNCHANGED <<is_serve, acceptor, socks>>

\* the Err arm of the task in HttpProxy::serve: the error reply, then the shutdown
Reply(h) ==
    LET c == http[h] IN
    /\ c.pc = "reply"
    /\ \E wrote \in {b \in BOOLEAN : b => CanWrite(c.stream)} :
       \E shut \in {b \in BOOLEAN : b => CanShutdown(c.stream) /\ (wrote \/ c.stream # "open")} :
         http' = [http EXCEPT ![h] =
             [c EXCEPT !.client_got = IF wrote THEN @ \o HttpReply(HttpStatus(c.error)) ELSE @,
                       !.stream = IF shut THEN "shut" ELSE Failed(@),
                       !.pc = "done"]]
    /\ UNCHANGED <<is_serve, node_statistics_map, acceptor, socks>>

\* one step of the task of connection h
HandlerStep(h) ==
    \/ Accept(h)
    \/ HttpFromStream(h)
    \/ ReadLineEof(h)
    \/ ReadLineReset(h)
    \/ Classify(h)
    \/ Pick(h)
    \/ Dial(h)
    \/ Incre(h)
    \/ Forward(h)
    \/ Relay(h)
    \/ Decre(h)
    \/ Reply(h)

Next ==
    \/ Serve
    \/ Shutdown
    \/ \E h \in Handlers : HandlerStep(h)

\* the HTTP proxy serving NumHandlers concurrent connections
Spec == Init /\ [][Next]_vars

NextConn ==
    \/ Serve
    \/ Shutdown
    \/ HandlerStep(1)

\* the HTTP proxy serving one connection
SpecConn == Init /\ [][NextConn]_vars

\* ------------------------------------------------------------- the SOCKS5 handler
\* stream.shutdown(): the record after it succeeded (ok) or failed
Shut(c, ok) == [c EXCEPT !.stream = IF ok THEN "shut" ELSE Failed(@)]

ShutdownOutcomes(stream) == {b \in BOOLEAN : b => CanShutdown(stream)}
WriteOutcomes(stream) == {b \in BOOLEAN : b => CanWrite(stream)}

\* read_exact of n bytes can be served from what the client sends
Avail(c, n) == c.consumed + n <= Len(c.sent)

Take(c, n) == SubSeq(c.sent, c.consumed + 1, c.consumed + n)

\* a read whose capture replaces the buffer instead of extending it
ReadExactReplacing(c, n) ==
    [c EXCEPT !.consumed = @ + n, !.readed_buffer = Take(c, n)]

\* read_exact of n bytes into the captured buffer
ReadExact(c, n) ==
    [c EXCEPT !.consumed = @ + n, !.readed_buffer = @ \o Take(c, n)]

\* read_exact at the end of the stream: UnexpectedEof
ReadShort(c) == Raise([c EXCEPT !.consumed = Len(c.sent)], "Io")

\* SocksProxy::serve: listener.accept() and tokio::spawn of the handler task
SocksAccept ==
    /\ socks.pc = "idle"
    /\ \E in \in SocksInputs :
         socks' = [socks EXCEPT !.pc = "greeting", !.sent = in]
    /\ UNCHANGED <<is_serve, acceptor, node_statistics_map, http>>

\* SOCKSReq::from_stream, the greeting: VER NMETHODS, the version check, the methods
SocksGreeting ==
    /\ socks.pc = "greeting"
    /\ IF ~Avail(socks, 2)
       THEN socks' = ReadShort(socks)
       ELSE LET c == ReadExact(socks, 2)
                socks_version == c.readed_buffer[1]
                auth_method == c.readed_buffer[2]
            IN  IF socks_version # SOCKS_VERSION
                THEN \E ok \in ShutdownOutcomes(c.stream) :
                       socks' = Raise(Shut(c, ok), IF ok THEN "Anyhow" ELSE "Io")
                ELSE IF ~Avail(c, auth_method)
                THEN socks' = ReadShort(c)
                ELSE socks' = [ReadExact(c, auth_method) EXCEPT
                                  !.method = Take(c, auth_method), !.pc = "auth"]
    /\ UNCHANGED <<is_serve, acceptor, node_statistics_map, http>>

\* SOCKSReq::from_stream, the method selection and its two-byte answer
SocksAuth ==
    LET c == socks IN
    /\ c.pc = "auth"
    /\ IF AuthAccepted(c.method)
       THEN \E wrote \in WriteOutcomes(c.stream) :
              socks' = IF wrote
                       THEN [c EXCEPT !.client_got = @ \o <<SOCKS_VERSION, NoAuth>>,
                                      !.pc = "request"]
                       ELSE Raise([c EXCEPT !.stream = WriteFailed(@)], "Io")
       ELSE \E wrote \in WriteOutcomes(c.stream) :
              IF ~wrote
              THEN socks' = Raise([c EXCEPT !.stream = WriteFailed(@)], "Io")
              ELSE LET d == [c EXCEPT !.client_got = @ \o <<SOCKS_VERSION, NoMethod>>]
                   IN  \E ok \in ShutdownOutcomes(d.stream) :
                         socks' = Raise(Shut(d, ok), IF ok THEN "Anyhow" ELSE "Io")
    /\ UNCHANGED <<is_serve, acceptor, node_statistics_map, http>>

\* the length of the address that follows VER CMD RSV ATYP, given the bytes at hand
AddrLen(c, addr_type) ==
    CASE addr_type = "V4" -> 4
      [] addr_type = "V6" -> 16
      [] OTHER -> 1 + Take(c, 1)[1]

\* a parser that leaves the length byte of a domain name out of the captured buffer
SocksAddressLenUncaptured(c, command, addr_type) ==
    IF addr_type = "Domain" /\ ~Avail(c, 1)
    THEN ReadShort(c)
    ELSE IF ~Avail(c, AddrLen(c, addr_type))
    THEN ReadShort(c)
    ELSE LET n == AddrLen(c, addr_type)
             addr == IF addr_type = "Domain" THEN Tail(Take(c, n)) ELSE Take(c, n)
             a == [c EXCEPT !.consumed = @ + n, !.readed_buffer = @ \o addr]
         IN  IF ~Avail(a, 2)
             THEN ReadShort(a)
             ELSE LET port == Take(a, 2)
                      d == ReadExact(a, 2)
                  IN  IF addr_type = "Domain" /\ ~Utf8Valid(addr)
                      THEN [d EXCEPT !.pc = "panicked"]
                      ELSE [d EXCEPT !.pc = "handle",
                                     !.req = [version |-> c.packet[1],
                                              command |-> command,
                                              host |-> addr_to_host(addr_type, addr),
                                              port |-> U16(port[1], port[2])]]

\* SOCKSReq::from_stream, the address, the port and the record
SocksAddress(c, command, addr_type) ==
    IF addr_type = "Domain" /\ ~Avail(c, 1)
    THEN ReadShort(c)
    ELSE IF ~Avail(c, AddrLen(c, addr_type))
    THEN ReadShort(c)
    ELSE LET n == AddrLen(c, addr_type)
             a == ReadExact(c, n)
             addr == IF addr_type = "Domain" THEN Tail(Take(c, n)) ELSE Take(c, n)
         IN  IF ~Avail(a, 2)
             THEN ReadShort(a)
             ELSE LET port == Take(a, 2)
                      d == ReadExact(a, 2)
                  IN  IF addr_type = "Domain" /\ ~Utf8Valid(addr)
                      THEN [d EXCEPT !.pc = "panicked"]
                      ELSE [d EXCEPT !.pc = "handle",
                                     !.req = [version |-> c.packet[1],
                                              command |-> command,
                                              host |-> addr_to_host(addr_type, addr),
                                              port |-> U16(port[1], port[2])]]

\* SOCKSReq::from_stream, the request: VER CMD RSV ATYP and what follows
SocksRequest ==
    /\ socks.pc = "request"
    /\ IF ~Avail(socks, 4)
       THEN socks' = ReadShort(socks)
       ELSE LET c == [ReadExact(socks, 4) EXCEPT !.packet = Take(socks, 4)]
                command == SockCommand(c.packet[2])
                addr_type == AddrType(c.packet[4])
            IN  \E ok1 \in ShutdownOutcomes(c.stream) :
                LET c1 == IF c.packet[1] # SOCKS_VERSION THEN Shut(c, ok1) ELSE c
                IN  IF c.packet[1] # SOCKS_VERSION /\ ~ok1
                    THEN socks' = Raise(c1, "Io")
                    ELSE IF command = "None"
                    THEN \E ok2 \in ShutdownOutcomes(c1.stream) :
                           socks' = Raise(Shut(c1, ok2),
                                          IF ok2 THEN "CommandNotSupported" ELSE "Io")
                    ELSE IF addr_type = "None"
                    THEN \E ok2 \in ShutdownOutcomes(c1.stream) :
                           socks' = Raise(Shut(c1, ok2),
                                          IF ok2 THEN "AddrTypeNotSupported" ELSE "Io")
                    ELSE socks' = SocksAddress(c1, command, addr_type)
    /\ UNCHANGED <<is_serve, acceptor, node_statistics_map, http>>

\* SOCKSReq::from_stream as a function of the bytes a client sends on a fresh
\* stream whose writes and shutdowns succeed: the record of the task when the
\* parser has returned (pc "handle": a record; "reply": an error; "panicked")
SocksFromStream(bytes) ==
    LET c0 == [IdleSocks EXCEPT !.pc = "greeting", !.sent = bytes] IN
    IF ~Avail(c0, 2) THEN ReadShort(c0) ELSE
    LET c1 == ReadExact(c0, 2)
        auth_method == c1.readed_buffer[2]
    IN
    IF c1.readed_buffer[1] # SOCKS_VERSION THEN Raise(Shut(c1, TRUE), "Anyhow") ELSE
    IF ~Avail(c1, auth_method) THEN ReadShort(c1) ELSE
    LET c2 == [ReadExact(c1, auth_method) EXCEPT !.method = Take(c1, auth_method)] IN
    IF ~AuthAccepted(c2.method)
    THEN Raise(Shut([c2 EXCEPT !.client_got = <<SOCKS_VERSION, NoMethod>>], TRUE), "Anyhow")
    ELSE
    LET c3 == [c2 EXCEPT !.client_got = <<SOCKS_VERSION, NoAuth>>] IN
    IF ~Avail(c3, 4) THEN ReadShort(c3) ELSE
    LET c4 == [ReadExact(c3, 4) EXCEPT !.packet = Take(c3, 4)]
        c5 == IF c4.packet[1] # SOCKS_VERSION THEN Shut(c4, TRUE) ELSE c4
        command == SockCommand(c4.packet[2])
        addr_type == AddrType(c4.packet[4])
    IN
    IF command = "None" THEN Raise(Shut(c5, TRUE), "CommandNotSupported") ELSE
    IF addr_type = "None" THEN Raise(Shut(c5, TRUE), "AddrTypeNotSupported") ELSE
    SocksAddress(c5, command, addr_type)

\* SOCKClient::handle_client, the match on the command and the classification
SocksHandle ==
    LET c == socks IN
    /\ c.pc = "handle"
    /\ IF CommandProceeds(c.req.command)
       THEN \E m \in MatchRes(socks_verdict(c.req.host)) :
              socks' = [c EXCEPT !.match_res = m, !.pc = "dial"]
       ELSE socks' = Raise(c, "Unsupported")
    /\ UNCHANGED <<is_serve, acceptor, node_statistics_map, http>>

\* a handler that dials the upstream proxy whatever the verdict
socks_target_server_upstream(c) == <<"vpn_host", "vpn_port">>

\* the address SOCKClient::handle_client dials
socks_target_server(c) ==
    IF c.match_res
    THEN <<"host", c.req.host, c.req.port>>
    ELSE <<"vpn_host", "vpn_port">>

\* SOCKClient::handle_client, timeout(time_out, TcpStream::connect(..))
SocksDial ==
    LET c == socks
        d == [c EXCEPT !.dialed = socks_target_server(c)]
    IN
    /\ c.pc = "dial"
    /\ \E out \in DialOutcomes :
         LET e == [d EXCEPT !.dial = out] IN
         socks' = CASE out = "timeout" -> Raise(e, "ConnectionRefused")
                    [] out = "refused" -> Raise(e, "Io")
                    [] OTHER -> [e EXCEPT !.pc = "handshake"]
    /\ UNCHANGED <<is_serve, acceptor, node_statistics_map, http>>

\* SOCKClient::handle_client, after the dial: the replay to the upstream proxy
\* and the read of its two-byte answer, or the success reply to the client
SocksHandshake ==
    LET c == socks IN
    /\ c.pc = "handshake"
    /\ IF ~c.match_res
       THEN \E out \in {"ok", "write_failed", "read_failed"} :
              socks' =
                 CASE out = "write_failed" -> Raise(c, "Io")
                   [] out = "read_failed" ->
                        Raise([c EXCEPT !.target_got = @ \o c.readed_buffer], "Io")
                   [] OTHER -> [c EXCEPT !.target_got = @ \o c.readed_buffer,
                                         !.target_read = 2,
                                         !.pc = "relay"]
       ELSE \E wrote \in WriteOutcomes(c.stream) :
              socks' = IF wrote
                       THEN [c EXCEPT !.client_got = @ \o SocksReply(SocksRep("Success")),
                                      !.pc = "relay"]
                       ELSE Raise([c EXCEPT !.stream = WriteFailed(@)], "Io")
    /\ UNCHANGED <<is_serve, acceptor, node_statistics_map, http>>

\* SOCKClient::handle_client, copy_bidirectional and the match on its result
SocksRelay ==
    LET c == socks IN
    /\ c.pc = "relay"
    /\ \E out \in RelayOutcomes :
       \E side \in RelayErrorSides(out) :
         socks' = RelayReturn(
                     [c EXCEPT !.relayed = TRUE,
                               !.target_got = @ \o SubSeq(c.sent, c.consumed + 1, Len(c.sent)),
                               !.consumed = Len(c.sent),
                               !.stream = IF side = "client" THEN Failed(@) ELSE @],
                     out)
    /\ UNCHANGED <<is_serve, acceptor, node_statistics_map, http>>

\* the Err arm of the task in SocksProxy::serve: the error reply, then the shutdown
SocksError ==
    LET c == socks IN
    /\ c.pc = "reply"
    /\ \E wrote \in WriteOutcomes(c.stream) :
       \E shut \in {b \in ShutdownOutcomes(c.stream) : b => (wrote \/ c.stream # "open")} :
         socks' = [c EXCEPT
                     !.client_got = IF wrote THEN @ \o SocksReply(SocksRep(c.error)) ELSE @,
                     !.stream = IF shut THEN "shut" ELSE Failed(@),
                     !.pc = "done"]
    /\ UNCHANGED <<is_serve, acceptor, node_statistics_map, http>>

NextSocks ==
    \/ SocksAccept
    \/ SocksGreeting
    \/ SocksAuth
    \/ SocksRequest
    \/ SocksHandle
    \/ SocksDial
    \/ SocksHandshake
    \/ SocksRelay
    \/ SocksError

\* the SOCKS5 proxy serving one connection
SpecSocks == Init /\ [][NextSocks]_vars

\* the lock a handler takes at pc: the read lock of the classifier, or the
\* mutex of the statistics
lock_of(pc) == IF pc = "classify" THEN "match_proxy" ELSE "statistics"

LockSteps == {"classify", "pick", "incre", "decre"}

\* handle_client, match_proxy_share.read().await and
\* vpn_node_statistics_map.lock().await: the task gets the guard; the mutex is
\* given to one task at a time
Lock(h) ==
    LET c == http[h] IN
    /\ c.pc \in LockSteps
    /\ c.guard = ""
    /\ lock_of(c.pc) = "statistics" =>
           \A g \in Handlers : http[g].guard # "statistics"
    /\ http' = [http EXCEPT ![h] = [c EXCEPT !.guard = lock_of(c.pc)]]
    /\ UNCHANGED <<is_serve, node_statistics_map, acceptor, socks>>

\* one step of the task of connection h, with the locks taken in steps of their own
LockedStep(h) ==
    \/ Accept(h)
    \/ HttpFromStream(h)
    \/ ReadLineEof(h)
    \/ ReadLineReset(h)
    \/ Lock(h)
    \/ http[h].guard # "" /\ Classify(h)
    \/ http[h].guard # "" /\ Pick(h)
    \/ Dial(h)
    \/ http[h].guard # "" /\ Incre(h)
    \/ Forward(h)
    \/ Relay(h)
    \/ http[h].guard # "" /\ Decre(h)
    \/ Reply(h)

NextLocks ==
    \/ Serve
    \/ Shutdown
    \/ \E h \in Handlers : LockedStep(h)

\* the HTTP proxy with the acquisition of each lock as a step
SpecLocks == Init /\ [][NextLocks]_vars

\* HttpProxy::serve called again after the accept loop has stopped: the port is
\* free again, so the bind succeeds, the statistics are rebuilt and a new loop
\* is spawned
ServeAgain ==
    /\ acceptor = "stopped"
    /\ is_serve' = TRUE
    /\ node_statistics_map' = from_vec
    /\ acceptor' = "running"
    /\ UNCHANGED <<http, socks>>

NextReserve ==
    \/ Next
    \/ ServeAgain

\* the HTTP proxy whose owner may call serve again
SpecReserve == Init /\ [][NextReserve]_vars

NextProxies ==
    \/ NextConn
    \/ NextSocks

\* the process running both proxies: one HTTP and one SOCKS5 connection
SpecProxies == Init /\ [][NextProxies]_vars

\* ------------------------------------------------------------- claims
Finished(c) == c.pc = "done"

\* the handlers that hold a proxied relay through node n
Relaying(n) ==
    {h \in Handlers : /\ http[h].rule = "Proxy"
                      /\ http[h].node_info = n
                      /\ http[h].pc \in {"forward", "relay", "decre"}}

\* the header block of what a client sends: up to and including the first empty line
HeaderEnd(s) ==
    IF Len(s) >= 2 /\ s[1] = CR /\ s[2] = LF
    THEN 2
    ELSE IF \E k \in 3..Len(s) : s[k - 2] = LF /\ s[k - 1] = CR /\ s[k] = LF
    THEN CHOOSE k \in 3..Len(s) :
            /\ s[k - 2] = LF /\ s[k - 1] = CR /\ s[k] = LF
            /\ \A j \in 3..(k - 1) : ~(s[j - 2] = LF /\ s[j - 1] = CR /\ s[j] = LF)
    ELSE 0

HeaderBlock(s) == SubSeq(s, 1, HeaderEnd(s))

AfterHeaderBlock(s) == SubSeq(s, HeaderEnd(s) + 1, Len(s))

IsSuffix(t, s) == Len(t) <= Len(s) /\ SubSeq(s, Len(s) - Len(t) + 1, Len(s)) = t

\* the version on the request line a client sent: the word before the first CR
SentVersion(s) ==
    LET k == CHOOSE i \in 1..Len(s) : s[i] = CR /\ \A j \in 1..(i - 1) : s[j] # CR
    IN  s[k - 1]

BeforeRelay == {"pick", "dial", "incre", "forward"}

\* C1: when the handler of a Proxy-classified connection has finished after a
\* node was picked, whatever the way it finished, its increment of the node's
\* counter has been matched by a decrement.
C1_NetDeltaZero ==
    \A h \in Handlers :
        (Finished(http[h]) /\ http[h].node_info # 0) => ~http[h].leased

\* C2: every node's counter equals the number of handlers that hold a proxied
\* relay through the node; no counter is negative, and all are 0 when no
\* handler is running.
C2_CountIsRelays ==
    \A n \in Nodes :
        /\ node_statistics_map[n] = Cardinality(Relaying(n))
        /\ node_statistics_map[n] >= 0
        /\ (\A h \in Handlers : http[h].pc \in {"idle", "done", "panicked"})
               => node_statistics_map[n] = 0

\* C3: the pick and the increment are one atomic step: no handler picks a node
\* while the pick of that node by another handler is not yet in its count.
C3_PickIncrementAtomic ==
    \A h, g \in Handlers :
        (h # g /\ http[h].pc \in {"dial", "incre"} /\ http[g].pc \in {"dial", "incre"}
               /\ http[h].node_info # 0)
            => http[h].node_info # http[g].node_info

\* C4: when a handler increments the counter of the node it picked, that
\* node's count is the minimum over all nodes.
C4_IncrementsLeast ==
    \A h \in Handlers :
        http[h].pc = "incre" =>
            \A m \in Nodes :
                node_statistics_map[http[h].node_info] <= node_statistics_map[m]

\* C5 as stated: on a Reject verdict the handler shuts the client stream, dials
\* nothing, writes nothing to the client, changes no counter and returns Ok(0).
C5_RejectReturnsOk ==
    \A h \in Handlers :
        (http[h].rule = "Reject" /\ http[h].pc # "classify") =>
            /\ http[h].stream = "shut"
            /\ http[h].dialed = ""
            /\ http[h].client_got = <<>>
            /\ http[h].node_info = 0 /\ ~http[h].leased
            /\ http[h].result = <<"Ok", 0>>

\* C5 as amended: on a Reject verdict the handler dials nothing, delivers
\* nothing to the client or to a target and changes no counter; when the
\* shutdown of the client stream succeeds the stream is shut and the handler
\* returns Ok(0), and when it fails (the client has reset the connection) the
\* handler returns the I/O error.
C5_RejectNoOutbound ==
    \A h \in Handlers :
        (http[h].rule = "Reject" /\ http[h].pc # "classify") =>
            /\ http[h].dialed = ""
            /\ http[h].client_got = <<>>
            /\ http[h].target_got = <<>>
            /\ ~http[h].relayed
            /\ http[h].node_info = 0 /\ ~http[h].leased
            /\ http[h].pc \in {"reply", "done"}
            /\ \/ http[h].stream = "shut" /\ http[h].result = <<"Ok", 0>>
               \/ http[h].stream = "broken" /\ http[h].result = <<"Err", "Io">>

C5_Witness ==
    \E h \in Handlers :
        /\ http[h].rule = "Reject" /\ Finished(http[h])
        /\ http[h].stream = "shut" /\ http[h].result = <<"Ok", 0>>

\* C7: for a CONNECT request classified Direct, when the relay starts the
\* client has received exactly "<request version> 200 Connection established"
\* and an empty line, and the target has received nothing; what the target
\* receives later is only what the client sent after its header block.
C7_TunnelHandshake ==
    \A h \in Handlers :
        LET c == http[h] IN
        (c.rule = "Direct" /\ c.sent[1] = "CONNECT") =>
            /\ c.pc = "relay" =>
                 c.client_got = <<SentVersion(c.sent), SP, "200", SP, "Connection", SP,
                                  "established", CR, LF, CR, LF>>
            /\ c.pc \in BeforeRelay \cup {"relay"} => c.target_got = <<>>
            /\ IsSuffix(c.target_got, AfterHeaderBlock(c.sent))

C7_Witness ==
    \E h \in Handlers :
        /\ http[h].rule = "Direct" /\ http[h].sent[1] = "CONNECT"
        /\ http[h].pc = "relay"
        /\ http[h].dialed # ""

\* C8: for a request that is not (Direct and CONNECT), when the relay starts
\* the target has received exactly the header block the client sent, up to and
\* including the empty line, and the client has received nothing; the target
\* receives nothing before that, and the client never receives a success line.
C8_HeaderBlockForwarded ==
    \A h \in Handlers :
        LET c == http[h] IN
        (c.rule \in {"Direct", "Proxy"} /\ ~(c.rule = "Direct" /\ c.sent[1] = "CONNECT")) =>
            /\ c.pc = "relay" =>
                 c.target_got = HeaderBlock(c.sent) /\ c.client_got = <<>>
            /\ c.pc \in BeforeRelay => c.target_got = <<>>
            /\ c.relayed => IsPrefix(HeaderBlock(c.sent), c.target_got)
            /\ "200" \notin Range(c.client_got)

C8_Witness ==
    \E h \in Handlers :
        /\ http[h].rule = "Proxy" /\ http[h].sent[1] = "CONNECT"
        /\ http[h].pc = "relay"
        /\ http[h].target_got = HeaderBlock(http[h].sent)
        /\ Len(http[h].target_got) > 0


\* what a SOCKS client sent, read off its bytes
GreetingComplete(s) == Len(s) >= 2 /\ s[1] = 5 /\ Len(s) >= 2 + s[2]

GreetingLen(s) == 2 + s[2]

OfferedMethods(s) == SubSeq(s, 3, 2 + s[2])

SentRequest(s) == SubSeq(s, GreetingLen(s) + 1, Len(s))

\* a complete request frame with VER 5, a known address type and a valid address
WellFormedRequest(r) ==
    /\ Len(r) >= 4 /\ r[1] = 5 /\ r[4] \in {1, 3, 4}
    /\ CASE r[4] = 1 -> Len(r) = 10
         [] r[4] = 4 -> Len(r) = 22
         [] OTHER -> /\ Len(r) >= 5 /\ Len(r) = 7 + r[5]
                     /\ \A i \in 6..(5 + r[5]) : r[i] < 128

\* C6: when a SOCKS5 CONNECT request is parsed and the verdict on its host is
\* Reject, the handler dials nothing, sends no success reply, and ends with the
\* client stream closed.
C6_SocksRejectNoDial ==
    (/\ socks.pc \notin {"idle", "greeting", "auth", "request", "handle"}
     /\ socks.req.command = "Connect"
     /\ socks_verdict(socks.req.host) = "Reject")
        => /\ socks.dialed = <<>>
           /\ socks.client_got = <<5, 0>>
           /\ ~socks.relayed

\* C9: in a greeting with VER 5, if 0x00 is among the offered methods the
\* client is answered 05 00 (unless it has reset the connection) and the
\* parser does not fail for the methods; otherwise the client receives 05 FF
\* and nothing else, the stream is shut, the parser fails, no byte of the
\* request is read and nothing is dialed.
C9_MethodNegotiation ==
    LET c == socks
        s == socks.sent
    IN  (c.pc \notin {"idle", "greeting", "auth"} /\ GreetingComplete(s)) =>
            IF 0 \in Range(OfferedMethods(s))
            THEN /\ \/ IsPrefix(<<5, 0>>, c.client_got)
                    \/ c.stream = "broken" /\ c.client_got = <<>> /\ c.error = "Io"
                 /\ c.error # "Anyhow"
                 /\ c.stream = "open" => c.consumed = Len(s) \/ c.pc = "request"
                                          \/ c.consumed > GreetingLen(s)
            ELSE /\ c.client_got \in {<<>>, <<5, 255>>}
                 /\ c.stream = "shut" => c.client_got = <<5, 255>>
                 /\ c.error = "Anyhow" => c.client_got = <<5, 255>>
                 /\ c.stream # "open"
                 /\ c.consumed = GreetingLen(s)
                 /\ c.dialed = <<>> /\ c.target_got = <<>> /\ ~c.relayed
                 /\ c.pc \in {"reply", "done"}
                 /\ c.result # <<>> /\ c.result[1] = "Err"

C9_Witness ==
    /\ socks.pc = "done"
    /\ GreetingComplete(socks.sent)
    /\ 0 \notin Range(OfferedMethods(socks.sent))
    /\ Len(socks.sent) > GreetingLen(socks.sent)
    /\ socks.client_got = <<5, 255>>
    /\ socks.stream = "shut"

SuccessReply == <<5, 0, 0, 1, 0, 0, 0, 0, 0, 0>>

\* the client has received the success reply after the answer to its greeting
HasSuccess(c) == IsPrefix(<<5, 0>> \o SuccessReply, c.client_got)

\* C11: for a SOCKS5 CONNECT served directly, the client receives the success
\* reply only after the dial to the requested host and port has succeeded, and
\* it has received exactly that when the relay starts; before the dial has
\* ended, and when the dial failed or timed out, no success reply is sent.
C11_DirectReplyAfterDial ==
    LET c == socks IN
    (c.pc \notin {"idle", "greeting", "auth", "request", "handle"} /\ c.match_res
         /\ c.req.command = "Connect") =>
        /\ HasSuccess(c) => /\ c.dial = "connected"
                            /\ c.dialed = <<"host", c.req.host, c.req.port>>
        /\ c.pc = "relay" => c.client_got = <<5, 0>> \o SuccessReply /\ ~c.relayed
        /\ c.relayed => HasSuccess(c)
        /\ c.pc \in {"dial", "handshake"} => c.client_got = <<5, 0>>
        /\ c.dial \in {"refused", "timeout"} =>
               /\ ~c.relayed
               /\ Len(c.client_got) > 2 => c.client_got[4] # 0

C11_Witness ==
    /\ socks.pc = "relay" /\ socks.match_res
    /\ socks.dial = "connected"
    /\ socks.dialed = <<"host", <<"Ipv4", 10, 0, 0, 1>>, 443>>
    /\ socks.client_got = <<5, 0>> \o SuccessReply

C13_ParserRoundTrip ==
    socks.pc # "idle" =>
        LET r == SocksFromStream(socks.sent) IN
        /\ r.pc = "handle" =>
               LET q == SocksFromStream(r.readed_buffer) IN
               /\ q.pc = "handle"
               /\ q.req = r.req
               /\ q.readed_buffer = r.readed_buffer
        /\ socks.pc = "handle" =>
               r.pc = "handle" /\ r.req = socks.req /\ r.readed_buffer = socks.readed_buffer

C13_Witness ==
    /\ socks.pc = "handle"
    /\ Len(socks.readed_buffer) < Len(socks.sent)
    /\ socks.req = [version |-> 5, command |-> "Connect",
                    host |-> <<"Domain", <<112>>>>, port |-> 80]
    /\ SocksFromStream(socks.readed_buffer).req = socks.req

\* the error block of the HTTP framer with status 502
Http502 ==
    <<"HTTP/1.1", SP, "502", SP, "Proxy", SP, "Error", CR, LF,
      "Content-Type:", SP, "text/plain", CR, LF,
      "Content-Length:", SP, "11", CR, LF,
      CR, LF,
      "Proxy", SP, "Error">>

\* the SOCKS reply with REP 0x05
SocksRefused == <<5, 5, 0, 1, 0, 0, 0, 0, 0, 0>>

\* the increments of node n's counter that handlers other than h hold
OthersCount(h, n) ==
    Cardinality({g \in Handlers \ {h} : http[g].leased /\ http[g].node_info = n})

\* C14, the HTTP handler apart from the reply: when the dial times out the
\* handler fails with ConnectionRefused, nothing is delivered to a target, no
\* relay is started and the counter of the picked node holds nothing of this
\* connection.
C14_HttpTimeoutFails ==
    \A h \in Handlers :
        LET c == http[h] IN
        c.dial = "timeout" =>
            /\ c.result = <<"Err", "ConnectionRefused">>
            /\ c.pc \in {"reply", "done"}
            /\ ~c.relayed /\ c.target_got = <<>>
            /\ ~c.leased
            /\ c.rule = "Proxy" =>
                   node_statistics_map[c.node_info] = OthersCount(h, c.node_info)

\* C14, the SOCKS handler: when the dial times out the handler fails with
\* ConnectionRefused, no relay is started, and unless the client has reset the
\* connection it receives the reply with REP 0x05 after the answer to its
\* greeting.
C14_SocksTimeoutReply ==
    LET c == socks IN
    c.dial = "timeout" =>
        /\ c.result = <<"Err", "ConnectionRefused">>
        /\ c.pc \in {"reply", "done"}
        /\ ~c.relayed /\ c.target_got = <<>>
        /\ c.pc = "done" =>
               /\ c.client_got \in {<<5, 0>>, <<5, 0>> \o SocksRefused}
               /\ c.stream = "shut" => c.client_got = <<5, 0>> \o SocksRefused

\* C14: when the dial times out the handler fails with ConnectionRefused, no
\* relay is started, the node counter is left as it was, and unless the client
\* has reset the connection it receives the HTTP error block with status 502,
\* or the SOCKS reply with REP 0x05.
C14_DialTimeout ==
    /\ C14_HttpTimeoutFails
    /\ C14_SocksTimeoutReply
    /\ \A h \in Handlers :
           (http[h].dial = "timeout" /\ http[h].pc = "done") =>
               /\ http[h].client_got \in {<<>>, Http502}
               /\ http[h].stream = "shut" => http[h].client_got = Http502

\* C15: once the shutdown signal has stopped the accept loop, no acceptor,
\* HTTP or SOCKS5, spawns a handler task for a connection.
C15_ShutdownStopsAccepting ==
    [][acceptor = "stopped" =>
           /\ \A h \in Handlers : http[h].pc = "idle" => http'[h].pc = "idle"
           /\ socks.pc = "idle" => socks'.pc = "idle"]_vars

\* the handler failed in the parser or in the dial
HttpParserOrDialError(c) ==
    c.error # "" /\ (c.rule = "" \/ c.dial \in {"refused", "timeout"})

SocksParserOrDialError(c) ==
    c.error # "" /\ (c.req = NoSocksReq \/ c.dial \in {"refused", "timeout"})

\* C16: for every parser error and every dial error, in the HTTP and in the
\* SOCKS5 handler, the client stream is not yet shut when the error reply is
\* about to be written, and when the stream has been shut the mapped error
\* reply is the last thing the client received.
C16_ReplyBeforeShut ==
    /\ \A h \in Handlers :
           LET c == http[h] IN
           HttpParserOrDialError(c) =>
               /\ c.pc = "reply" => c.stream # "shut"
               /\ (c.pc = "done" /\ c.stream = "shut") =>
                      IsSuffix(HttpReply(HttpStatus(c.error)), c.client_got)
    /\ LET c == socks IN
       SocksParserOrDialError(c) =>
           /\ c.pc = "reply" => c.stream # "shut"
           /\ (c.pc = "done" /\ c.stream = "shut") =>
                  IsSuffix(SocksReply(SocksRep(c.error)), c.client_got)

\* C17: no step of the handler of an HTTP connection classified Direct
\* changes a node counter, whatever the outcome of its dial and of its relay.
C17_DirectLeavesCounters ==
    [][\A h \in Handlers :
           (http'[h] # http[h] /\ http'[h].rule = "Direct")
               => node_statistics_map' = node_statistics_map]_vars

C17_Witness ==
    \E h, g \in Handlers :
        /\ http[h].rule = "Direct" /\ http[h].pc = "done" /\ http[h].relayed
        /\ http[g].rule = "Proxy" /\ http[g].pc = "relay"
        /\ node_statistics_map[http[g].node_info] = 1

\* C18: in a Proxy-classified HTTP connection the counter of the picked node
\* is incremented before the outbound dial is started: while the handler is
\* dialing, its increment is in the count.
C18_IncrementBeforeDial ==
    \A h \in Handlers :
        (http[h].rule = "Proxy" /\ http[h].pc = "dial") =>
            /\ http[h].leased
            /\ node_statistics_map[http[h].node_info] >= 1

\* C19: when the VER byte of the request frame is not 5 the parser returns no
\* record, nothing is dialed and the client receives no success reply.
C19_RequestVersionChecked ==
    (socks.packet # <<>> /\ socks.packet[1] # 5) =>
        /\ socks.req = NoSocksReq
        /\ socks.pc \in {"reply", "done"}
        /\ socks.dialed = <<>>
        /\ ~HasSuccess(socks)

\* a handler task of the HTTP proxy is running
Running(h) == http[h].pc \notin {"idle", "done", "panicked"}

\* C20: is_serving() is true only while the accept loop runs; once the loop
\* has stopped it is never started again, and no call on HttpProxy rebuilds
\* the node counters while a handler task is still running.
C20_LifecycleForward ==
    /\ [](is_serve => acceptor = "running")
    /\ [][acceptor = "stopped" => acceptor' = "stopped"]_vars
    /\ [][((\E h \in Handlers : Running(h)) /\ http' = http)
              => node_statistics_map' = node_statistics_map]_vars

\* the positions at which a handler task is suspended on network I/O
IoSteps == {"parse", "read_wait", "read_eof", "dial", "forward", "relay", "reply"}

\* C21: a handler that is suspended on network I/O holds neither the mutex of
\* the statistics nor the read lock of the classifier; so whenever a handler
\* is about to pick, increment or decrement, the mutex is free or held by a
\* handler that is at its own pick, increment or decrement.
C21_NoLockAcrossIO ==
    /\ \A h \in Handlers : http[h].pc \in IoSteps => http[h].guard = ""
    /\ \A h \in Handlers : http[h].guard # "" =>
           http[h].pc \in LockSteps /\ http[h].guard = lock_of(http[h].pc)
    /\ Cardinality({h \in Handlers : http[h].guard = "statistics"}) <= 1

C21_Witness ==
    \E h, g \in Handlers :
        /\ http[h].guard = "statistics" /\ http[h].pc = "incre"
        /\ http[g].rule = "Proxy" /\ http[g].pc = "relay" /\ http[g].leased

\* C22: the HTTP parser returns when the client closes before the empty line:
\* it never goes round its read loop again after the end of the stream, every
\* captured line holds bytes that were received, and there are no more
\* captured lines than bytes received.
C22_ParserReturnsAtEof ==
    \A h \in Handlers :
        /\ http[h].spins = 0
        /\ \A i \in 1..Len(http[h].headers) : http[h].headers[i] # <<>>
        /\ Len(http[h].headers) <= Len(http[h].sent)

\* C23: no client input makes a handler task abort: on every input the parser
\* returns a record or an error, and the task never ends in a panic.
C23_ParsersTotal ==
    /\ \A h \in Handlers : http[h].pc # "panicked"
    /\ socks.pc # "panicked"

\* C24: when the relay of an HTTP connection has run, the target has received,
\* in order, every byte the client sent after the empty line that ends its
\* header block.
C24_NoByteLost ==
    \A h \in Handlers :
        http[h].relayed => IsSuffix(AfterHeaderBlock(http[h].sent), http[h].target_got)

\* C25: once the relay has started the client receives no error reply made by
\* the proxy: no HTTP error block, and no ten-byte SOCKS reply after the one
\* that reported success.
C25_NoReplyAfterRelay ==
    /\ \A h \in Handlers :
           http[h].relayed => "Error" \notin Range(http[h].client_got)
    /\ socks.relayed => socks.client_got \in {<<5, 0>>, <<5, 0>> \o SuccessReply}

====
